---- MODULE Spec2Model ----
(***************************************************************************)
(* Model of the PAGEMAP_SCAN benchmark (src/src/main.rs).                  *)
(*                                                                         *)
(* One process, one thread: main parses its arguments, validates the dirty *)
(* fraction and runs, per iteration, three strategy functions.  Each       *)
(* strategy maps a fresh anonymous region (setup_memory), reclaims it in a *)
(* timed step and unmaps it.                                               *)
(*                                                                         *)
(* Addresses are byte offsets from the base of the mapping at hand (mmap   *)
(* returns a page-aligned base).  A region's content is the set of         *)
(* half-open byte intervals that hold a non-zero byte; every other byte is *)
(* zero.  A usize that wrapped below zero is kept as its negative residue  *)
(* (v stands for 2^64 + v), since TLC's integers are 32 bits wide.         *)
(***************************************************************************)
EXTENDS Integers, Sequences, FiniteSets

VARIABLES
    args,                \* command line: size, keep_resident, dirty_fraction, iterations
    kernel_supports,     \* host kernel offers the page-table scan
    overflow_checks,     \* build has arithmetic overflow checks (debug profile)
    pc,                  \* position of the single thread
    total_size,          \* main: parsed --size
    keep_resident_size,  \* main: parsed --keep-resident
    iter,                \* main: iterations completed
    maps,                \* every mapping created so far, in creation order
    cur,                 \* index in maps of the current function's `map`
    ops,                 \* memory operations of the current strategy invocation
    dirty_pages,         \* run_benchmark_pagemap_scan: ranges returned by the scan
    total_zeroed,        \* run_benchmark_pagemap_scan: bytes zeroed by the loop
    ret,                 \* return value of the last madvise call
    results,             \* main: Vec<BenchResult>
    invocations,         \* strategy invocations started, in order
    failure              \* error that ended the run ("none" while there is none)

vars == <<args, kernel_supports, overflow_checks, pc, total_size,
          keep_resident_size, iter, maps, cur, ops, dirty_pages, total_zeroed,
          ret, results, invocations, failure>>

----------------------------------------------------------------------------
(* Bounds of the model *)

MaxPages == 3        \* largest size argument, in pages
MaxIterations == 2   \* largest --iterations

(* Platform page size, rustix::param::page_size() *)
PageSize == 4096

KiBPerPage == PageSize \div 1024

DecimalDigits == <<"0", "1", "2", "3", "4", "5", "6", "7", "8", "9">>

RECURSIVE ToDigits(_)
(* The decimal digits of n, as a sequence of characters. *)
ToDigits(n) ==
    IF n < 10 THEN <<DecimalDigits[n + 1]>>
    ELSE ToDigits(n \div 10) \o <<DecimalDigits[(n % 10) + 1]>>

(* Size arguments, as sequences of characters ("U+00E9" is the two-byte
   character e-acute): whole pages and sizes below a page, and one argument
   for each way parse_size fails: lower-case suffix (accepted), explicit
   sign (accepted), unknown suffix, no number, empty string, non-ASCII last
   character, a product of 2^64 + 4096, a number above usize::MAX. *)
SizeArgs ==
    {ToDigits(KiBPerPage * k) \o <<"K">> : k \in 1..MaxPages}
        \cup {<<"0", "K">>, <<"1", "K">>, <<"4", "k">>, <<"+", "4", "K">>,
              <<"1", "B">>, <<"K">>, <<>>, <<"4", "U+00E9">>,
              <<"1", "8", "0", "1", "4", "3", "9", "8", "5", "0", "9", "4",
                "8", "1", "9", "8", "8", "K">>,
              <<"9", "9", "9", "9", "9", "9", "9", "9", "9", "9", "9", "9",
                "9", "9", "9", "9", "9", "9", "9", "9", "K">>}

(* Dirty fractions as <<numerator, denominator>>, two of them out of range. *)
DirtyFractions ==
    {<<-1, 10>>, <<0, 10>>, <<1, 10>>, <<5, 10>>, <<10, 10>>, <<11, 10>>}

StrategyOrder == <<"MemZero", "Madvise", "PagemapScan">>

----------------------------------------------------------------------------
(* Pure helpers *)

Min(a, b) == IF a < b THEN a ELSE b
Max(a, b) == IF a > b THEN a ELSE b

PageAlign(n) == ((n + PageSize - 1) \div PageSize) * PageSize

(* usize values are kept as little-endian sequences of 15-bit limbs while
   parse_size computes with them, so that 64-bit overflow is exact. *)
LimbBase == 2 ^ 15

RECURSIVE MulAdd(_, _, _)
(* ls * m + c, for m and c small. *)
MulAdd(ls, m, c) ==
    IF ls = <<>>
    THEN IF c = 0 THEN <<>> ELSE <<c % LimbBase>> \o MulAdd(<<>>, m, c \div LimbBase)
    ELSE <<(Head(ls) * m + c) % LimbBase>>
             \o MulAdd(Tail(ls), m, (Head(ls) * m + c) \div LimbBase)

RECURSIVE StripZeros(_)
StripZeros(ls) ==
    IF ls # <<>> /\ ls[Len(ls)] = 0 THEN StripZeros(SubSeq(ls, 1, Len(ls) - 1))
    ELSE ls

(* The value is below 2^64 = 2^(4*15 + 4). *)
Fits64(ls) == Len(ls) <= 4 \/ (Len(ls) = 5 /\ ls[5] < 16)

(* The value modulo 2^64. *)
Wrap64(ls) ==
    StripZeros([k \in 1..Min(Len(ls), 5) |-> IF k = 5 THEN ls[k] % 16 ELSE ls[k]])

RECURSIVE LimbsValue(_)
(* The value as an integer (the model's sizes stay far below 2^31). *)
LimbsValue(ls) ==
    IF ls = <<>> THEN 0 ELSE Head(ls) + LimbBase * LimbsValue(Tail(ls))

IsDigit(c) == \E i \in 1..10 : DecimalDigits[i] = c
DigitVal(c) == (CHOOSE i \in 1..10 : DecimalDigits[i] = c) - 1

RECURSIVE DigitsLimbs(_, _)
(* The number the digits ds denote, appended to the number acc. *)
DigitsLimbs(acc, ds) ==
    IF ds = <<>> THEN acc
    ELSE DigitsLimbs(MulAdd(acc, 10, DigitVal(Head(ds))), Tail(ds))

(* str::to_uppercase, character by character. *)
Upper(c) ==
    CASE c = "k" -> "K" [] c = "m" -> "M" [] c = "g" -> "G" [] c = "b" -> "B"
      [] c = "U+00E9" -> "U+00C9" [] OTHER -> c

(* Length of the character in UTF-8. *)
ByteLen(c) == IF c \in {"U+00E9", "U+00C9"} THEN 2 ELSE 1

(* num_str.parse::<usize>(): an optional "+", then one or more digits that
   denote a number below 2^64. *)
ParseUsize(cs) ==
    LET ds == IF cs # <<>> /\ Head(cs) = "+" THEN Tail(cs) ELSE cs
    IN IF ds = <<>> \/ \E i \in 1..Len(ds) : ~IsDigit(ds[i])
       THEN [ok |-> FALSE, limbs |-> <<>>]
       ELSE [ok |-> Fits64(DigitsLimbs(<<>>, ds)), limbs |-> DigitsLimbs(<<>>, ds)]

(* The multiplier of a suffix, as the number of factors 1024. *)
Factors1024(c) == IF c = "K" THEN 1 ELSE IF c = "M" THEN 2 ELSE 3

RECURSIVE Times1024(_, _)
Times1024(ls, n) == IF n = 0 THEN ls ELSE Times1024(MulAdd(ls, 1024, 0), n - 1)

(* parse_size: upper-case the string, split off its last byte, parse the
   number, match the suffix, multiply.  split_at panics on an empty string
   and inside a multi-byte character; the product panics on overflow in a
   build with overflow checks and wraps in one without. *)
ParseSize(a, checks) ==
    LET s == [i \in 1..Len(a) |-> Upper(a[i])]
    IN IF s = <<>> \/ ByteLen(s[Len(s)]) > 1
       THEN [kind |-> "panic", val |-> 0]
       ELSE LET num == ParseUsize(SubSeq(s, 1, Len(s) - 1))
                mult_char == s[Len(s)]
                prod == Times1024(num.limbs, Factors1024(mult_char))
            IN IF ~num.ok THEN [kind |-> "invalid_number", val |-> 0]
               ELSE IF mult_char \notin {"K", "M", "G"}
               THEN [kind |-> "invalid_suffix", val |-> 0]
               ELSE IF Fits64(prod) THEN [kind |-> "ok", val |-> LimbsValue(prod)]
               ELSE IF checks THEN [kind |-> "panic", val |-> 0]
               ELSE [kind |-> "ok", val |-> LimbsValue(Wrap64(prod))]

(* (0.0..=1.0).contains(&dirty_fraction) *)
FractionInRange(f) == 0 <= f[1] /\ f[1] <= f[2]

(* (total_size as f64 * dirty_fraction).round() as usize, for f in [0, 1]:
   round-half-away-from-zero of total * num / den. *)
DirtyBytes(total, f) == (2 * total * f[1] + f[2]) \div (2 * f[2])

(* Pages touched by an access of len bytes at off. *)
PagesOf(off, len) ==
    IF len <= 0 THEN {} ELSE (off \div PageSize)..((off + len - 1) \div PageSize)

(* The intervals of ivs with [lo, hi) cut out. *)
CutOut(ivs, lo, hi) ==
    {<<iv[1], Min(iv[2], lo)>> : iv \in {x \in ivs : x[1] < lo}}
        \cup {<<Max(iv[1], hi), iv[2]>> : iv \in {x \in ivs : x[2] > hi}}

(* slice.fill(v) over [off, off+len) of region m: the bytes take the value
   and the pages touched become written. *)
Fill(m, off, len, v) ==
    IF len <= 0 THEN m
    ELSE [m EXCEPT
            !.ones = IF v = 0 THEN CutOut(@, off, off + len)
                     ELSE CutOut(@, off, off + len) \cup {<<off, off + len>>},
            !.written = @ \cup PagesOf(off, len)]

(* Effect of a successful madvise(MADV_DONTNEED): the pages of the range
   lose their backing and read as zero. *)
Discard(m, off, len) ==
    [m EXCEPT !.ones = CutOut(@, off, off + PageAlign(len)),
              !.written = @ \ PagesOf(off, PageAlign(len))]

(* Every byte of [lo, hi) of region m is zero. *)
ZeroOver(m, lo, hi) ==
    \A iv \in m.ones : iv[1] >= iv[2] \/ iv[2] <= lo \/ iv[1] >= hi

AnyLive == \E k \in 1..Len(maps) : maps[k].live

Op(phase, kind, off, len) ==
    [phase |-> phase, kind |-> kind, off |-> off, len |-> len]

----------------------------------------------------------------------------
(* setup_memory *)

(* mmap_anonymous(None, total_size.try_into()?, ...)?: a zero length is
   refused by the conversion to a non-zero length, and the kernel may refuse
   any mapping (ENOMEM). *)
MapFails(total, refused) == total = 0 \/ refused

(* The prefault write of keep_resident_size bytes leaves the pages the
   kernel mapped for the region: it may fault (SIGSEGV) or land in whatever
   is mapped behind the region. *)
PrefaultLeavesMapping(total, keep) == keep > PageAlign(total)

(* Variant of SetupMemory that maps once and prepares the same region
   again for every later call. *)
SetupMemoryReuse(ms, total, keep, f) ==
    IF ms = <<>>
    THEN <<Fill(Fill([size |-> total, live |-> TRUE, ones |-> {}, written |-> {}],
                     0, keep, 0), 0, DirtyBytes(total, f), 1)>>
    ELSE [ms EXCEPT ![Len(ms)] =
            Fill(Fill([@ EXCEPT !.live = TRUE], 0, keep, 0),
                 0, DirtyBytes(total, f), 1)]

(* setup_memory after a successful mmap: a fresh, zero-filled region is
   appended to the mappings, its first keep bytes are written with 0 and its
   first dirty_bytes bytes with 1. *)
SetupMemory(ms, total, keep, f) ==
    LET fresh == [size |-> total, live |-> TRUE, ones |-> {}, written |-> {}]
        faulted == Fill(fresh, 0, keep, 0)
        dirty_bytes == DirtyBytes(total, f)
        dirtied == IF dirty_bytes > 0 THEN Fill(faulted, 0, dirty_bytes, 1)
                   ELSE faulted
    IN Append(ms, dirtied)

SetupOps(total, keep, f) ==
    <<Op("setup", "fill", 0, keep)>>
        \o (IF DirtyBytes(total, f) > 0
            THEN <<Op("setup", "fill", 0, DirtyBytes(total, f))>> ELSE <<>>)

(* libc::munmap(map, total_size) *)
Munmap(ms, k) == [ms EXCEPT ![k].live = FALSE, ![k].ones = {}, ![k].written = {}]

----------------------------------------------------------------------------
(* madvise *)

(* Variant of MadviseRange that discards the whole region. *)
MadviseRangeFull(total, keep) == [off |-> 0, len |-> total]

(* Range of the madvise call of both strategies: the remainder behind the
   keep_resident bytes.  A negative len is the wrapped usize. *)
MadviseRange(total, keep) == [off |-> keep, len |-> total - keep]

(* Return value of madvise(base+off, len, MADV_DONTNEED) on a region of
   total bytes: EINVAL for an unaligned address or a range that wraps,
   0 for an empty range, ENOMEM for a range that leaves the mapping. *)
MadviseRet(off, len, total) ==
    IF off % PageSize # 0 THEN -1
    ELSE IF len < 0 THEN -1
    ELSE IF len = 0 THEN 0
    ELSE IF off + PageAlign(len) > PageAlign(total) THEN -1
    ELSE 0

----------------------------------------------------------------------------
(* pagemap::dirty_pages_in_region *)

RECURSIVE RunEnd(_, _, _)
(* First page at or after p, below n, that is not in W. *)
RunEnd(p, n, W) == IF p < n /\ p \in W THEN RunEnd(p + 1, n, W) ELSE p

RECURSIVE Coalesce(_, _, _)
(* Maximal runs of pages of W within p..n-1, ascending, as byte ranges. *)
Coalesce(p, n, W) ==
    IF p >= n THEN <<>>
    ELSE IF p \notin W THEN Coalesce(p + 1, n, W)
    ELSE <<<<p * PageSize, RunEnd(p, n, W) * PageSize>>>>
             \o Coalesce(RunEnd(p, n, W), n, W)

(* The scan of [base, base+len) of region m into a buffer of capacity
   slots: the written pages of the window as coalesced ranges, no more of
   them than the buffer holds. *)
DirtyPagesInRegion(m, len, capacity, supported) ==
    IF len % PageSize # 0 THEN [err |-> "unaligned", regions |-> <<>>]
    ELSE IF ~supported THEN [err |-> "unsupported", regions |-> <<>>]
    ELSE LET all == Coalesce(0, len \div PageSize, m.written)
         IN [err |-> "none",
             regions |-> SubSeq(all, 1, Min(Len(all), capacity))]

----------------------------------------------------------------------------
(* main *)

Init ==
    /\ args \in [size : SizeArgs, keep_resident : SizeArgs,
                 dirty_fraction : DirtyFractions, iterations : 0..MaxIterations]
    /\ kernel_supports \in BOOLEAN
    /\ overflow_checks \in BOOLEAN
    /\ pc = "start"
    /\ total_size = 0
    /\ keep_resident_size = 0
    /\ iter = 0
    /\ maps = <<>>
    /\ cur = 0
    /\ ops = <<>>
    /\ dirty_pages = <<>>
    /\ total_zeroed = 0
    /\ ret = 0
    /\ results = <<>>
    /\ invocations = <<>>
    /\ failure = "none"

(* Position of main after its argument checks, or at the loop head. *)
LoopHead(done, n) == IF done < n THEN "memset_setup" ELSE "exit_ok"

(* main, lines 81-91: parse the size, then the keep_resident size, then
   validate the dirty fraction; the first failure ends main. *)
MainStartOutcome(a, checks) ==
    LET size == ParseSize(a.size, checks)
        keep == ParseSize(a.keep_resident, checks)
        stop(pos, why, t) ==
            [pc |-> pos, failure |-> why, total_size |-> t, keep_resident_size |-> 0]
    IN IF size.kind = "panic" THEN stop("panicked", "none", 0)
       ELSE IF size.kind # "ok" THEN stop("exit_err", "parse", 0)
       ELSE IF keep.kind = "panic" THEN stop("panicked", "none", size.val)
       ELSE IF keep.kind # "ok" THEN stop("exit_err", "parse", size.val)
       ELSE [pc |-> IF FractionInRange(a.dirty_fraction)
                    THEN LoopHead(0, a.iterations) ELSE "exit_err",
             failure |-> IF FractionInRange(a.dirty_fraction)
                         THEN "none" ELSE "validation",
             total_size |-> size.val,
             keep_resident_size |-> keep.val]

MainStart ==
    /\ pc = "start"
    /\ pc' = MainStartOutcome(args, overflow_checks).pc
    /\ failure' = MainStartOutcome(args, overflow_checks).failure
    /\ total_size' = MainStartOutcome(args, overflow_checks).total_size
    /\ keep_resident_size' = MainStartOutcome(args, overflow_checks).keep_resident_size
    /\ UNCHANGED <<args, kernel_supports, overflow_checks, iter, maps, cur, ops,
                   dirty_pages, total_zeroed, ret, results, invocations>>

(* Variant of PushResult that keeps only the latest record of a strategy. *)
PushResultOverwrite(rs, strategy) ==
    SelectSeq(rs, LAMBDA r : r.strategy # strategy)
        \o <<[strategy |-> strategy, total_size |-> total_size,
              keep_resident |-> keep_resident_size,
              dirty_fraction |-> args.dirty_fraction]>>

(* results.push(run_benchmark_*(...)?) on Ok *)
PushResult(rs, strategy) ==
    Append(rs, [strategy |-> strategy, total_size |-> total_size,
                keep_resident |-> keep_resident_size,
                dirty_fraction |-> args.dirty_fraction])

(* The call of setup_memory that opens every strategy function.  Whether
   the kernel refuses the mapping is the environment's choice.  An Err
   leaves the strategy function and main through the two `?`. *)
Setup(here, strategy, next) ==
    /\ pc = here
    /\ dirty_pages' = <<>>
    /\ total_zeroed' = 0
    /\ ret' = 0
    /\ \E refused \in BOOLEAN :
         IF MapFails(total_size, refused)
         THEN /\ pc' = "exit_err"
              /\ failure' = "map_failed"
              /\ invocations' = Append(invocations,
                     [strategy |-> strategy, iter |-> iter, map |-> 0])
              /\ UNCHANGED <<maps, cur, ops>>
         ELSE /\ maps' = SetupMemory(maps, total_size, keep_resident_size,
                                     args.dirty_fraction)
              /\ cur' = Len(maps')
              /\ ops' = SetupOps(total_size, keep_resident_size,
                                 args.dirty_fraction)
              /\ invocations' = Append(invocations,
                     [strategy |-> strategy, iter |-> iter, map |-> cur'])
              /\ failure' = failure
              /\ \/ pc' = next
                 \/ /\ PrefaultLeavesMapping(total_size, keep_resident_size)
                    /\ pc' = "crashed"
    /\ UNCHANGED <<args, kernel_supports, overflow_checks, total_size,
                   keep_resident_size, iter, results>>

----------------------------------------------------------------------------
(* run_benchmark_memset *)

MemsetSetup == Setup("memset_setup", "MemZero", "memset_fill")

(* The timed step: slice.fill(0) over the whole region. *)
MemsetFill ==
    /\ pc = "memset_fill"
    /\ maps' = [maps EXCEPT ![cur] = Fill(@, 0, total_size, 0)]
    /\ ops' = Append(ops, Op("timed", "fill", 0, total_size))
    /\ pc' = "memset_ret"
    /\ UNCHANGED <<args, kernel_supports, overflow_checks, total_size,
                   keep_resident_size, iter, cur, dirty_pages, total_zeroed,
                   ret, results, invocations, failure>>

(* munmap, Ok(BenchResult), and main's push. *)
MemsetReturn ==
    /\ pc = "memset_ret"
    /\ maps' = Munmap(maps, cur)
    /\ results' = PushResult(results, "MemZero")
    /\ pc' = "madvise_setup"
    /\ UNCHANGED <<args, kernel_supports, overflow_checks, total_size,
                   keep_resident_size, iter, cur, ops, dirty_pages,
                   total_zeroed, ret, invocations, failure>>

----------------------------------------------------------------------------
(* run_benchmark_madvise *)

MadviseSetup == Setup("madvise_setup", "Madvise", "madvise_fill")

(* Timed step, first half: kr_slice.fill(0) over the keep_resident bytes. *)
MadviseFill ==
    /\ pc = "madvise_fill"
    /\ maps' = [maps EXCEPT ![cur] = Fill(@, 0, keep_resident_size, 0)]
    /\ ops' = Append(ops, Op("timed", "fill", 0, keep_resident_size))
    /\ pc' = "madvise_call"
    /\ UNCHANGED <<args, kernel_supports, overflow_checks, total_size,
                   keep_resident_size, iter, cur, dirty_pages, total_zeroed,
                   ret, results, invocations, failure>>

(* madvise(map + keep_resident_size, total_size - keep_resident_size,
   MADV_DONTNEED), shared by the two strategies that call it.  The
   subtraction panics in a build with overflow checks and wraps in one
   without. *)
RemainderMadvise(next) ==
    IF keep_resident_size > total_size /\ overflow_checks
    THEN /\ pc' = "panicked"
         /\ UNCHANGED <<maps, ops, ret>>
    ELSE LET r == MadviseRange(total_size, keep_resident_size)
             v == MadviseRet(r.off, r.len, total_size)
         IN /\ ret' = v
            /\ ops' = Append(ops, Op("timed", "madvise", r.off, r.len))
            /\ maps' = IF v = 0
                       THEN [maps EXCEPT ![cur] = Discard(@, r.off, r.len)]
                       ELSE maps
            /\ pc' = next

(* Timed step, second half. *)
MadviseCall ==
    /\ pc = "madvise_call"
    /\ RemainderMadvise("madvise_ret")
    /\ UNCHANGED <<args, kernel_supports, overflow_checks, total_size,
                   keep_resident_size, iter, cur, dirty_pages, total_zeroed,
                   results, invocations, failure>>

(* if ret != 0 { return Err(..) }: the function returns with the region
   still mapped and main's `?` returns the error.  Otherwise munmap,
   Ok(BenchResult) and main's push. *)
MadviseReturn ==
    /\ pc = "madvise_ret"
    /\ IF ret # 0
       THEN /\ pc' = "exit_err"
            /\ failure' = "syscall"
            /\ UNCHANGED <<maps, results>>
       ELSE /\ maps' = Munmap(maps, cur)
            /\ results' = PushResult(results, "Madvise")
            /\ pc' = "scan_setup"
            /\ failure' = failure
    /\ UNCHANGED <<args, kernel_supports, overflow_checks, total_size,
                   keep_resident_size, iter, cur, ops, dirty_pages,
                   total_zeroed, ret, invocations>>

----------------------------------------------------------------------------
(* run_benchmark_pagemap_scan *)

ScanSetup == Setup("scan_setup", "PagemapScan", "scan_query")

(* let pages = total_size / page_size: capacity of the buffer. *)
BufferPages(total) == total \div PageSize

(* dirty_pages_in_region(map, keep_resident_size, regions)?: an Err returns
   from the function with the region still mapped, and from main. *)
ScanQuery ==
    /\ pc = "scan_query"
    /\ LET d == DirtyPagesInRegion(maps[cur], keep_resident_size,
                                   BufferPages(total_size), kernel_supports)
       IN /\ ops' = Append(ops, Op("timed", "scan", 0, keep_resident_size))
          /\ dirty_pages' = d.regions
          /\ failure' = IF d.err = "none" THEN failure ELSE d.err
          /\ pc' = IF d.err = "none" THEN "scan_zero" ELSE "exit_err"
    /\ UNCHANGED <<args, kernel_supports, overflow_checks, total_size,
                   keep_resident_size, iter, maps, cur, total_zeroed, ret,
                   results, invocations>>

RECURSIVE ZeroRegionsShort(_, _)
(* Variant of ZeroRegions that zeroes one byte less of every range. *)
ZeroRegionsShort(m, rs) ==
    IF rs = <<>> THEN m
    ELSE ZeroRegionsShort(Fill(m, Head(rs)[1], Head(rs)[2] - Head(rs)[1] - 1, 0),
                          Tail(rs))

RECURSIVE ZeroRegions(_, _)
(* The loop over dirty_pages.regions: region_slice.fill(0) on each. *)
ZeroRegions(m, rs) ==
    IF rs = <<>> THEN m
    ELSE ZeroRegions(Fill(m, Head(rs)[1], Head(rs)[2] - Head(rs)[1], 0), Tail(rs))

RECURSIVE SumLen(_)
(* total_zeroed += len over the regions. *)
SumLen(rs) ==
    IF rs = <<>> THEN 0 ELSE (Head(rs)[2] - Head(rs)[1]) + SumLen(Tail(rs))

ZeroOps(rs) ==
    [k \in 1..Len(rs) |-> Op("timed", "fill", rs[k][1], rs[k][2] - rs[k][1])]

ScanZero ==
    /\ pc = "scan_zero"
    /\ maps' = [maps EXCEPT ![cur] = ZeroRegions(@, dirty_pages)]
    /\ total_zeroed' = SumLen(dirty_pages)
    /\ ops' = ops \o ZeroOps(dirty_pages)
    /\ pc' = "scan_madvise"
    /\ UNCHANGED <<args, kernel_supports, overflow_checks, total_size,
                   keep_resident_size, iter, cur, dirty_pages, ret, results,
                   invocations, failure>>

(* if total_zeroed == keep_resident_size { madvise the remainder } *)
ScanMadvise ==
    /\ pc = "scan_madvise"
    /\ IF total_zeroed = keep_resident_size
       THEN RemainderMadvise("scan_ret")
       ELSE /\ pc' = "scan_ret"
            /\ UNCHANGED <<maps, ops, ret>>
    /\ UNCHANGED <<args, kernel_supports, overflow_checks, total_size,
                   keep_resident_size, iter, cur, dirty_pages, total_zeroed,
                   results, invocations, failure>>

(* if ret != 0 { return Err(..) }, else munmap, Ok(BenchResult), main's push
   and the loop head of main. *)
ScanReturn ==
    /\ pc = "scan_ret"
    /\ IF ret # 0
       THEN /\ pc' = "exit_err"
            /\ failure' = "syscall"
            /\ UNCHANGED <<maps, results, iter>>
       ELSE /\ maps' = Munmap(maps, cur)
            /\ results' = PushResult(results, "PagemapScan")
            /\ iter' = iter + 1
            /\ pc' = LoopHead(iter + 1, args.iterations)
            /\ failure' = failure
    /\ UNCHANGED <<args, kernel_supports, overflow_checks, total_size,
                   keep_resident_size, cur, ops, dirty_pages, total_zeroed,
                   ret, invocations>>

----------------------------------------------------------------------------

Next ==
    \/ MainStart
    \/ MemsetSetup
    \/ MemsetFill
    \/ MemsetReturn
    \/ MadviseSetup
    \/ MadviseFill
    \/ MadviseCall
    \/ MadviseReturn
    \/ ScanSetup
    \/ ScanQuery
    \/ ScanZero
    \/ ScanMadvise
    \/ ScanReturn

Spec == Init /\ [][Next]_vars

----------------------------------------------------------------------------
(* Vocabulary of the properties *)

(* Control is in main: before the first call, between two strategy calls,
   or after main returned. *)
InMain ==
    pc \in {"start", "memset_setup", "madvise_setup", "scan_setup",
            "exit_ok", "exit_err"}

Returned == pc \in {"exit_ok", "exit_err"}

IsTimed(o) == o.phase = "timed"
IsTimedWrite(o) == o.phase = "timed" /\ o.kind = "fill" /\ o.len > 0
IsTimedMadvise(o) == o.phase = "timed" /\ o.kind = "madvise"

CountOf(seq, strategy) ==
    Cardinality({k \in DOMAIN seq : seq[k].strategy = strategy})

KeepAlignedWithin ==
    keep_resident_size % PageSize = 0 /\ keep_resident_size <= total_size

----------------------------------------------------------------------------
(* C1: whenever control is back in main (between strategy calls or after
   main returned), no mapping created by setup_memory is still live: every
   strategy function has unmapped its region before returning, with Ok or
   with Err. *)
C1_ReleasedOnEveryReturn == InMain => ~AnyLive

(* C2: when the run has ended and a strategy invocation failed with a
   syscall error, every strategy of every iteration was nevertheless
   started. *)
C2_SyscallErrorAbortsOnlyInvocation ==
    (Returned /\ failure = "syscall")
        => Len(invocations) = Len(StrategyOrder) * args.iterations

(* C3: when the scan reported the capability unsupported, the run is not
   aborted and every scan-based invocation that was started has a result
   record. *)
C3_UnsupportedScanDegrades ==
    failure = "unsupported"
        => /\ pc # "exit_err"
           /\ CountOf(results, "PagemapScan") = CountOf(invocations, "PagemapScan")

(* C4: for a page-aligned keep_resident_size <= total_size, after the
   reclamation step of run_benchmark_memset and after that of
   run_benchmark_pagemap_scan every byte of the scanned window
   [base, base+keep_resident_size) is zero. *)
C4_WindowZeroAfterReclaim ==
    (KeepAlignedWithin /\ pc \in {"memset_ret", "scan_madvise", "scan_ret"})
        => ZeroOver(maps[cur], 0, keep_resident_size)

C4_Witness ==
    /\ pc = "scan_ret"
    /\ KeepAlignedWithin
    /\ keep_resident_size > 0
    /\ DirtyBytes(total_size, args.dirty_fraction) > keep_resident_size
    /\ dirty_pages # <<>>
    /\ CountOf(results, "MemZero") > 0
    /\ ZeroOver(maps[cur], 0, keep_resident_size)

(* C5: with dirty_fraction = 0.0 the scan of run_benchmark_pagemap_scan over
   the window returns no dirty range, so nothing is zeroed. *)
C5_NoDirtyRangeAtFractionZero ==
    (args.dirty_fraction[1] = 0 /\ pc \in {"scan_zero", "scan_madvise", "scan_ret"})
        => dirty_pages = <<>>

(* C6: a run that completes without error has produced exactly one result
   record per iteration and strategy, in the order of the calls: none lost,
   duplicated or skipped. *)
C6_OneResultPerIterationAndStrategy ==
    pc = "exit_ok"
        => /\ Len(results) = args.iterations * Len(StrategyOrder)
           /\ Len(invocations) = Len(results)
           /\ \A k \in DOMAIN results :
                /\ results[k].strategy
                     = StrategyOrder[((k - 1) % Len(StrategyOrder)) + 1]
                /\ invocations[k].strategy = results[k].strategy
                /\ invocations[k].iter = (k - 1) \div Len(StrategyOrder)

C6_Witness ==
    /\ pc = "exit_ok"
    /\ args.iterations >= 2
    /\ Len(results) = args.iterations * Len(StrategyOrder)

(* C7, as claimed: the timed step of run_benchmark_madvise is exactly one
   madvise call over the full region [base, base+total_size) and no write. *)
C7_OneDiscardOfFullRegion ==
    pc = "madvise_ret"
        => /\ SelectSeq(ops, IsTimedMadvise)
                = <<Op("timed", "madvise", 0, total_size)>>
           /\ SelectSeq(ops, IsTimedWrite) = <<>>

(* C7, amended: the timed step of run_benchmark_madvise is one zero-fill of
   the keep_resident_size bytes at base followed by exactly one madvise call
   at base+keep_resident_size of length total_size - keep_resident_size. *)
C7_ZeroKeepThenDiscardRemainder ==
    pc = "madvise_ret"
        => SelectSeq(ops, IsTimed)
             = <<Op("timed", "fill", 0, keep_resident_size),
                 Op("timed", "madvise", keep_resident_size,
                    total_size - keep_resident_size)>>

C7_Witness ==
    /\ pc = "madvise_ret"
    /\ keep_resident_size > 0
    /\ keep_resident_size < total_size
    /\ ret = 0
    /\ Len(SelectSeq(ops, IsTimedMadvise)) = 1

(* C8: no mapping is used by two strategy invocations, and the region a
   timed step starts from is a fresh one holding exactly the prefault and
   the dirty prefix of its own setup_memory call. *)
C8_FreshRegionPerInvocation ==
    /\ \A j, k \in DOMAIN invocations :
          (j # k /\ invocations[j].map # 0)
              => invocations[j].map # invocations[k].map
    /\ pc \in {"memset_fill", "madvise_fill", "scan_query"}
          => LET db == DirtyBytes(total_size, args.dirty_fraction)
             IN /\ invocations[Len(invocations)].map = cur
                /\ maps[cur].live
                /\ maps[cur].size = total_size
                /\ maps[cur].ones = (IF db > 0 THEN {<<0, db>>} ELSE {})
                /\ maps[cur].written
                     = PagesOf(0, Max(keep_resident_size, db))

C8_Witness ==
    /\ pc = "scan_query"
    /\ iter >= 1
    /\ Len(invocations) = Len(StrategyOrder) * iter + Len(StrategyOrder)
    /\ DirtyBytes(total_size, args.dirty_fraction) > 0
    /\ maps[cur].ones # {}

(* C9: with dirty_fraction outside [0.0, 1.0], main returns an error
   before any core work: once it has left its argument checks it has
   returned Err, and no mapping, strategy invocation or result record
   exists. *)
C9_OutOfRangeFractionReturnsError ==
    ((args.dirty_fraction[1] < 0 \/ args.dirty_fraction[1] > args.dirty_fraction[2])
       /\ pc # "start")
        => /\ pc = "exit_err"
           /\ maps = <<>>
           /\ invocations = <<>>
           /\ results = <<>>

(* The part of C9 that holds: with dirty_fraction out of range no core work
   is ever done, whether main returns an error or parse_size panics. *)
C9_OutOfRangeFractionDoesNoCoreWork ==
    (args.dirty_fraction[1] < 0 \/ args.dirty_fraction[1] > args.dirty_fraction[2])
        => /\ pc \in {"start", "exit_err", "panicked"}
           /\ pc = "exit_err" => failure \in {"parse", "validation"}
           /\ maps = <<>>
           /\ invocations = <<>>
           /\ results = <<>>

(* C10: every write, scan window and madvise range of a strategy invocation
   lies inside [base, base+total_size), and keep_resident_size never
   exceeds total_size once a strategy runs. *)
C10_AccessesInsideRegion ==
    /\ \A k \in DOMAIN ops :
          ops[k].len >= 0 /\ ops[k].off + ops[k].len <= total_size
    /\ invocations # <<>> => keep_resident_size <= total_size

====
